---------------------------- MODULE Spec2Model ----------------------------
(***************************************************************************)
(* A model of projects/yt8m/src/model.py: the class-weight table           *)
(* (calc_class_weight), the record decoder (_parse), the dataset pipeline  *)
(* (input_fn), the serving adapter (serving_input_receiver_fn), the        *)
(* weighted loss (hamming_loss) and BaseModel's construction.              *)
(*                                                                         *)
(* The TensorFlow / pandas / numpy calls are modelled by their documented  *)
(* behaviour; every such place says which behaviour is meant.  Floating    *)
(* point values are modelled as exact non-negative rationals extended with *)
(* inf and NaN (rounding is not modelled).                                 *)
(***************************************************************************)
EXTENDS Integers, Sequences, FiniteSets, TLC

(***************************************************************************)
(* Program constants, scaled down so that the model is finite.             *)
(***************************************************************************)
\* model.py:16  N_CLASS = 3862, scaled.
N_CLASS == 2
\* model.py:17  BATCH_SIZE = 1024, scaled.
BATCH_SIZE == 2
\* model.py:62  shuffle(buffer_size=1000), scaled.
SHUFFLE_BUFFER_SIZE == 2
\* model.py:23  shape=(1024,) of mean_rgb, scaled.
EMBED_DIM == 1

(***************************************************************************)
(* Bounds of the model.                                                    *)
(***************************************************************************)
\* Largest number of records the matched files hold.
MaxRecords == 5
\* Batches produced in TRAIN mode before the model stops (the stream is infinite).
MaxBatches == 3
\* Largest TrainVideoCount of a vocabulary row.
MaxCount == 2
\* Longest label list of a serialized example.
MaxLabels == 3
\* Largest value of an embedding component.
MaxRgb == 2
\* params["train_steps"].
MaxSteps == 1

Range(s) == {s[i] : i \in DOMAIN s}

RECURSIVE SeqSum(_)
SeqSum(s) == IF s = <<>> THEN 0 ELSE Head(s) + SeqSum(Tail(s))

\* All sequences over S of length 0..n.
SeqsUpTo(S, n) == UNION {[1..k -> S] : k \in 0..n}

(***************************************************************************)
(* Floating point values: a non-negative rational n/d in lowest terms,     *)
(* +inf, or NaN, with IEEE-754 rules for the operations the code uses.     *)
(***************************************************************************)
RECURSIVE GCD(_, _)
GCD(a, b) == IF b = 0 THEN a ELSE GCD(b, a % b)

Fin(n, d) == LET g == GCD(n, d) IN [k |-> "fin", n |-> n \div g, d |-> d \div g]
INF == [k |-> "inf", n |-> 0, d |-> 0]
NAN == [k |-> "nan", n |-> 0, d |-> 0]

IsFinite(x) == x.k = "fin"

\* integer a / integer b as pandas divides two int64 values: x/0 = inf, 0/0 = NaN.
FDiv(a, b) ==
    IF b = 0 THEN (IF a = 0 THEN NAN ELSE INF) ELSE Fin(a, b)

FMul(x, y) ==
    IF x.k = "nan" \/ y.k = "nan" THEN NAN
    ELSE IF x.k = "inf" THEN (IF y.k = "fin" /\ y.n = 0 THEN NAN ELSE INF)
    ELSE IF y.k = "inf" THEN (IF x.n = 0 THEN NAN ELSE INF)
    ELSE LET g == GCD(x.n, y.d)
             h == GCD(y.n, x.d)
         IN Fin((x.n \div g) * (y.n \div h), (x.d \div h) * (y.d \div g))

FAdd(x, y) ==
    IF x.k = "nan" \/ y.k = "nan" THEN NAN
    ELSE IF x.k = "inf" \/ y.k = "inf" THEN INF
    ELSE LET g == GCD(x.d, y.d)
         IN Fin(x.n * (y.d \div g) + y.n * (x.d \div g), (x.d \div g) * y.d)

\* x / k for an integer k > 0.
FDivInt(x, k) ==
    IF x.k = "fin" THEN LET g == GCD(x.n, k) IN Fin(x.n \div g, x.d * (k \div g)) ELSE x

\* numpy's pow(x, s) for a natural exponent: x**0 = 1 also for inf and NaN.
RECURSIVE FPow(_, _)
FPow(x, s) == IF s = 0 THEN Fin(1, 1) ELSE FMul(x, FPow(x, s - 1))

RECURSIVE FSum(_)
FSum(s) == IF s = <<>> THEN Fin(0, 1) ELSE FAdd(Head(s), FSum(Tail(s)))

(***************************************************************************)
(* calc_class_weight (model.py:35-49).                                     *)
(* A vocabulary file is its set of column names and its rows.              *)
(***************************************************************************)
RECURSIVE InsertByIndex(_, _)
InsertByIndex(row, s) ==
    IF s = <<>> THEN <<row>>
    ELSE IF row.Index < Head(s).Index THEN <<row>> \o s
    ELSE <<Head(s)>> \o InsertByIndex(row, Tail(s))

\* vocab.sort_values("Index", inplace=True)
RECURSIVE sort_values(_)
sort_values(rows) ==
    IF rows = <<>> THEN <<>>
    ELSE InsertByIndex(rows[Len(rows)], sort_values(SubSeq(rows, 1, Len(rows) - 1)))

\* The weight without the division by the number of classes.
WeightOfRow_NoClassCount(total, n, count) == FDiv(total, count)

\* w = cnt.sum() / (len(vocab) * cnt)
WeightOfRow(total, n, count) == FDiv(total, n * count)

\* The value returned, or the exception raised: pandas raises KeyError for a
\* column the frame does not have (sort_values("Index"), vocab["TrainVideoCount"]).
calc_class_weight(infile, scale) ==
    IF "Index" \notin infile.columns \/ "TrainVideoCount" \notin infile.columns
    THEN [raised |-> "KeyError", w |-> <<>>]
    ELSE LET vocab == sort_values(infile.rows)
             cnt == [i \in 1..Len(vocab) |-> vocab[i].TrainVideoCount]
             total == SeqSum(cnt)
             w == [i \in 1..Len(vocab) |-> WeightOfRow(total, Len(vocab), cnt[i])]
         IN [raised |-> "none", w |-> [i \in 1..Len(vocab) |-> FPow(w[i], scale)]]

(***************************************************************************)
(* The feature schema (model.py:22-29).  A serialized example is a record  *)
(* of its two fields, each absent or a typed list (tf.train.Feature holds  *)
(* a float_list, an int64_list or a bytes_list).                           *)
(***************************************************************************)
ABSENT == [kind |-> "absent", value |-> <<>>]

FEAT_COL_VIDEO ==
    << [key |-> "mean_rgb", column |-> "numeric", shape |-> EMBED_DIM, dtype |-> "float_list"],
       [key |-> "labels", column |-> "indicator_identity", num_buckets |-> N_CLASS] >>

\* The labels parsed as a required fixed-length field, like mean_rgb.
ParseConfigOf_LabelsRequired(col) ==
    [feature |-> "FixedLenFeature",
     shape |-> IF col.column = "numeric" THEN col.shape ELSE 1,
     dtype |-> IF col.column = "numeric" THEN col.dtype ELSE "int64_list"]

\* fc.make_parse_example_spec: a numeric column without default_value parses as a
\* FixedLenFeature(shape, dtype) that is required; a categorical identity column
\* parses as a VarLenFeature(tf.int64), which may be missing from an example.
ParseConfigOf(col) ==
    IF col.column = "numeric"
    THEN [feature |-> "FixedLenFeature", shape |-> col.shape, dtype |-> col.dtype]
    ELSE [feature |-> "VarLenFeature", shape |-> 0, dtype |-> "int64_list"]

make_parse_example_spec(cols) ==
    [key \in {cols[i].key : i \in DOMAIN cols} |->
        ParseConfigOf(CHOOSE c \in Range(cols) : c.key = key)]

FEAT_SPEC_VIDEO == make_parse_example_spec(FEAT_COL_VIDEO)

\* Whether tf.io.parse_example accepts field f of one example under config cfg.
FieldParses(f, cfg) ==
    IF f.kind = "absent" THEN cfg.feature = "VarLenFeature"
    ELSE /\ f.kind = cfg.dtype
         /\ cfg.feature = "FixedLenFeature" => Len(f.value) = cfg.shape

\* tf.io.parse_example(examples, features=spec): one failing example fails the call.
parse_example(examples, spec) ==
    IF \E i \in DOMAIN examples, key \in DOMAIN spec : ~FieldParses(examples[i][key], spec[key])
    THEN [raised |-> "InvalidArgumentError", features |-> <<>>]
    ELSE [raised |-> "none",
          features |-> [key \in DOMAIN spec |->
                           [i \in DOMAIN examples |-> examples[i][key].value]]]

\* dict.pop(key): the mapping without the key.
Pop(features, key) == [k \in (DOMAIN features) \ {key} |-> features[k]]

\* Number of positions of list s holding v.
Occurrences(s, v) == Cardinality({i \in DOMAIN s : s[i] = v})

\* The indicator column's dense row for one example: the column one-hot encodes each
\* id and sums the one-hot vectors over the example's ids (IndicatorColumn, "multi-hot
\* representation ... counts the occurrences").  Class c is position c + 1.
IndicatorRow(ids) == [c \in 1..N_CLASS |-> Occurrences(ids, c - 1)]

\* MULTI_HOT_ENCODER = DenseFeatures(indicator_column(
\*     categorical_column_with_identity("labels", num_buckets=N_CLASS))):
\* the identity column rejects an id outside [0, num_buckets).
MULTI_HOT_ENCODER(labels) ==
    IF \E i \in DOMAIN labels : \E j \in DOMAIN labels[i] :
           labels[i][j] < 0 \/ labels[i][j] >= N_CLASS
    THEN [raised |-> "InvalidArgumentError", dense |-> <<>>]
    ELSE [raised |-> "none", dense |-> [i \in DOMAIN labels |-> IndicatorRow(labels[i])]]

\* _parse (model.py:52-56)
_parse(examples, spec) ==
    LET parsed == parse_example(examples, spec)
        encoded == MULTI_HOT_ENCODER(parsed.features["labels"])
    IN IF parsed.raised # "none"
       THEN [raised |-> parsed.raised, features |-> <<>>, labels |-> <<>>]
       ELSE IF encoded.raised # "none"
       THEN [raised |-> encoded.raised, features |-> <<>>, labels |-> <<>>]
       ELSE [raised |-> "none", features |-> Pop(parsed.features, "labels"),
             labels |-> encoded.dense]

\* serving_input_receiver_fn (model.py:70-77), applied to the fed example strings.
serving_input_receiver_fn(example_bytestring) ==
    LET parsed == parse_example(example_bytestring, FEAT_SPEC_VIDEO)
    IN IF parsed.raised # "none"
       THEN [raised |-> parsed.raised, features |-> <<>>, receiver_tensors |-> <<>>]
       ELSE [raised |-> "none", features |-> Pop(parsed.features, "labels"),
             receiver_tensors |-> [examples_bytes |-> example_bytestring]]

(***************************************************************************)
(* hamming_loss (model.py:98-102).  Probabilities are tenths (1 and 9 for  *)
(* 0.1 and 0.9) and -log is tabulated in thousandths.                      *)
(***************************************************************************)
PLevels == {1, 9}

\* -ln(t/10), in thousandths.
NegLogMilli(t) == CASE t = 1 -> 2303 [] t = 9 -> 105

\* tf.keras.backend.binary_crossentropy, one element: -(y log p + (1 - y) log(1 - p)).
binary_crossentropy_elem(y, p) ==
    Fin(y * NegLogMilli(p) + (1 - y) * NegLogMilli(10 - p), 1000)

binary_crossentropy(y_true, y_pred) ==
    [e \in DOMAIN y_true |->
        [c \in DOMAIN y_true[e] |-> binary_crossentropy_elem(y_true[e][c], y_pred[e][c])]]

\* loss *= self.class_weights: the weight vector broadcasts along the batch axis
\* when its length is the row length (or 1).
Broadcastable(weights, width) == Len(weights) = width \/ Len(weights) = 1

MulBroadcast(loss, weights) ==
    [e \in DOMAIN loss |->
        [c \in DOMAIN loss[e] |->
            FMul(loss[e][c], IF Len(weights) = 1 THEN weights[1] ELSE weights[c])]]

\* tf.reduce_sum(loss, axis=1)
reduce_sum_axis1(loss) == [e \in DOMAIN loss |-> FSum(loss[e])]

\* The batch reduced by a sum instead of a mean.
reduce_mean_AsSum(v) == FSum(v)

\* tf.reduce_mean(v): the mean of an empty tensor is NaN.
reduce_mean(v) == IF Len(v) = 0 THEN NAN ELSE FDivInt(FSum(v), Len(v))

hamming_loss(self, y_true, y_pred) ==
    LET loss == binary_crossentropy(y_true, y_pred)
    IN IF self.params.weighted_loss
       THEN IF Broadcastable(self.class_weights, N_CLASS)
            THEN [raised |-> "none",
                  value |-> reduce_mean(reduce_sum_axis1(MulBroadcast(loss, self.class_weights)))]
            ELSE [raised |-> "InvalidArgumentError", value |-> NAN]
       ELSE [raised |-> "none", value |-> reduce_mean(reduce_sum_axis1(loss))]

(***************************************************************************)
(* State.                                                                  *)
(***************************************************************************)
VARIABLES
    \* input_fn and the iterator over the dataset it returns
    mode,        \* tf.estimator.ModeKeys: "TRAIN" or "EVAL"
    storage,     \* the files in storage: each its name and its number of records
    pc,          \* "start" before input_fn is called, "built" once it has returned
    filenames,   \* the file list the TFRecordDataset was built on
    iter,        \* the iterator's position: records read of the current pass (pos),
                 \* the pass of repeat() (epoch), whether the pass has produced
                 \* nothing yet (first_call), the records shuffle() buffers
                 \* (shufbuf), whether batch() saw its input end (input_ended)
    eos,         \* the prefetch thread has seen the end of its input
    buf,         \* prefetch(): the batches buffered ahead of the consumer
    out,         \* the batches the consumer has taken, in order
    \* BaseModel
    vocab,         \* the content of VOCAB_FILE
    params,        \* the params given to BaseModel
    mstate,        \* "new", "constructed", "training", or the exception raised
    class_weights, \* self.class_weights
    batch,         \* the (y_true, y_pred) batch the training step is given
    steps,         \* training steps run
    loss,          \* the value hamming_loss returned last
    \* _parse and serving_input_receiver_fn on a batch of serialized examples
    examples,    \* the serialized examples
    decoded,     \* what _parse returned for them
    receiver     \* what serving_input_receiver_fn returned for them

pipeVars == <<mode, storage, pc, filenames, iter, eos, buf, out>>
modelVars == <<vocab, params, mstate, class_weights, batch, steps, loss>>
parseVars == <<examples, decoded, receiver>>
vars == <<pipeVars, modelVars, parseVars>>

None == [raised |-> "not called"]

(***************************************************************************)
(* input_fn (model.py:59-67).                                              *)
(***************************************************************************)
\* The infiles pattern of the caller, and a file name it matches.
INFILES == "data/*.tfrecord"
DataFile == "data/0.tfrecord"
OtherFile == "vocabulary.csv"

\* The record counts of the files the pattern matches: no file, one file, or a
\* one-record file and another.
FileLists ==
    {<<>>} \cup {<<n>> : n \in 0..MaxRecords} \cup {<<1, n>> : n \in 0..(MaxRecords - 1)}

\* A storage holding data files of these record counts and a file of another name.
StorageOf(counts) ==
    [i \in DOMAIN counts |-> [name |-> DataFile, records |-> counts[i]]]
    \o <<[name |-> OtherFile, records |-> 1]>>

\* Whether a file name matches a pattern.
Matches(pattern, name) == pattern = INFILES /\ name = DataFile

\* tf.io.gfile.glob(infiles): the matching files; an empty list when none matches.
RECURSIVE glob(_, _)
glob(pattern, files) ==
    IF files = <<>> THEN <<>>
    ELSE (IF Matches(pattern, Head(files).name) THEN <<Head(files)>> ELSE <<>>)
         \o glob(pattern, Tail(files))

\* Number of records of TFRecordDataset(filenames): the files' records in order.
NumRecords(fs) == SeqSum([i \in DOMAIN fs |-> fs[i].records])

\* The serialized example stored as record r.
TFRecord(r) ==
    [mean_rgb |-> [kind |-> "float_list", value |-> [i \in 1..EMBED_DIM |-> r]],
     labels |-> [kind |-> "int64_list", value |-> <<r % N_CLASS>>]]

\* drop_remainder=True in both modes.
drop_remainder_Always(m) == TRUE

\* batch(BATCH_SIZE, drop_remainder=...): model.py:62 and :64
drop_remainder(m) == m = "TRAIN"

\* A batch taken as complete one record early.
BatchFull_OneShort(c) == Len(c) >= BATCH_SIZE - 1 /\ Len(c) > 0

\* batch(): the batch is complete.
BatchFull(c) == Len(c) = BATCH_SIZE

\* dataset.prefetch(BATCH_SIZE): the buffer holds up to buffer_size elements of its
\* input, and its input's elements are batches.
PrefetchBufferSize == BATCH_SIZE

\* A fresh iterator over the dataset.
NewIterator ==
    [pos |-> 0, epoch |-> 0, first_call |-> TRUE, shufbuf |-> {}, input_ended |-> FALSE]

NoElement == [rec |-> 0, pass |-> 0]

Min(a, b) == IF a < b THEN a ELSE b

\* TFRecordDataset: the next record of the files, or their end.
TFRecordGetNext(u, n) ==
    IF u.pos < n
    THEN {[u |-> [u EXCEPT !.pos = @ + 1], end |-> FALSE,
           elem |-> [rec |-> u.pos + 1, pass |-> 0]]}
    ELSE {[u |-> u, end |-> TRUE, elem |-> NoElement]}

\* shuffle(buffer_size): the buffer is filled from the files until it is full or
\* they end; a random buffered record is the next element.
ShuffleFilled(u, n) ==
    LET k == Min(SHUFFLE_BUFFER_SIZE - Cardinality(u.shufbuf), n - u.pos)
    IN [u EXCEPT !.shufbuf = @ \cup ((u.pos + 1)..(u.pos + k)), !.pos = @ + k]

ShuffleGetNext(u, n) ==
    LET f == ShuffleFilled(u, n)
    IN IF f.shufbuf = {}
       THEN {[u |-> f, end |-> TRUE, elem |-> NoElement]}
       ELSE {[u |-> [f EXCEPT !.shufbuf = @ \ {r}], end |-> FALSE,
              elem |-> [rec |-> r, pass |-> f.epoch]] : r \in f.shufbuf}

\* repeat(count=None): when a pass ends the next one starts (reshuffled); a pass
\* that ends before producing anything ends the stream (the input is empty).
RECURSIVE RepeatGetNext(_, _)
RepeatGetNext(u, n) ==
    UNION {IF ~o.end THEN {[o EXCEPT !.u.first_call = FALSE]}
           ELSE IF o.u.first_call THEN {o}
           ELSE RepeatGetNext([o.u EXCEPT !.epoch = @ + 1, !.pos = 0, !.first_call = TRUE], n)
           : o \in ShuffleGetNext(u, n)}

\* The input of batch(): shuffle().repeat() in TRAIN mode, the files otherwise.
InputGetNext(m, u, n) ==
    IF m = "TRAIN" THEN RepeatGetNext(u, n) ELSE TFRecordGetNext(u, n)

\* batch(): elements are gathered until the batch is complete or the input ends.
RECURSIVE Gather(_, _, _, _)
Gather(m, u, n, c) ==
    IF BatchFull(c) THEN {[u |-> u, batch |-> c]}
    ELSE UNION {IF o.end THEN {[u |-> [o.u EXCEPT !.input_ended = TRUE], batch |-> c]}
                ELSE Gather(m, o.u, n, Append(c, o.elem))
                : o \in InputGetNext(m, u, n)}

\* batch(BATCH_SIZE, drop_remainder): the next batch, or the end when the input has
\* ended with nothing gathered, or with a partial batch and drop_remainder.
BatchGetNext(m, u, n) ==
    IF u.input_ended THEN {[u |-> u, end |-> TRUE, batch |-> <<>>]}
    ELSE {[u |-> g.u,
           end |-> (g.batch = <<>> \/ (~BatchFull(g.batch) /\ drop_remainder(m))),
           batch |-> g.batch] : g \in Gather(m, u, n, <<>>)}

\* dataset.map(partial(_parse, spec=spec, ...)) on one batch; src keeps, for each
\* example, the record and the pass it came from.
MapParse(c) ==
    LET r == _parse([i \in DOMAIN c |-> TFRecord(c[i].rec)], FEAT_SPEC_VIDEO)
    IN [src |-> c, raised |-> r.raised, features |-> r.features, labels |-> r.labels]

InitPipe ==
    /\ mode \in {"TRAIN", "EVAL"}
    /\ storage \in {StorageOf(c) : c \in FileLists}
    /\ pc = "start"
    /\ filenames = <<>>
    /\ iter = NewIterator
    /\ eos = FALSE
    /\ buf = <<>> /\ out = <<>>

IdlePipe ==
    /\ mode = "EVAL" /\ storage = <<>> /\ pc = "start" /\ filenames = <<>>
    /\ iter = NewIterator
    /\ eos = FALSE
    /\ buf = <<>> /\ out = <<>>

\* input_fn returns the dataset: nothing in it looks at whether the glob matched.
InputFn ==
    /\ pc = "start"
    /\ filenames' = glob(INFILES, storage)
    /\ pc' = "built"
    /\ UNCHANGED <<mode, storage, iter, eos, buf, out>>
    /\ UNCHANGED <<modelVars, parseVars>>

\* The prefetch thread: while its buffer has room it asks map() for the next
\* element, which asks batch(); the decoded batch is buffered.  (A TRAIN stream
\* never ends: the model stops producing after MaxBatches batches.)
PrefetchNext ==
    /\ pc = "built"
    /\ ~eos
    /\ Len(buf) < PrefetchBufferSize
    /\ mode = "TRAIN" => Len(out) + Len(buf) < MaxBatches
    /\ \E o \in BatchGetNext(mode, iter, NumRecords(filenames)) :
          /\ iter' = o.u
          /\ IF o.end
             THEN eos' = TRUE /\ UNCHANGED buf
             ELSE buf' = Append(buf, MapParse(o.batch)) /\ UNCHANGED eos
    /\ UNCHANGED <<mode, storage, pc, filenames, out>>
    /\ UNCHANGED <<modelVars, parseVars>>

\* The consumer takes the oldest buffered batch.
Consume ==
    /\ pc = "built"
    /\ buf # <<>>
    /\ out' = Append(out, Head(buf))
    /\ buf' = Tail(buf)
    /\ UNCHANGED <<mode, storage, pc, filenames, iter, eos>>
    /\ UNCHANGED <<modelVars, parseVars>>

NextPipe == InputFn \/ PrefetchNext \/ Consume

(***************************************************************************)
(* BaseModel (model.py:80-125).                                            *)
(***************************************************************************)
\* The rows of a vocabulary of n classes: every order of the indices 0..n-1,
\* every count in 0..MaxCount.
RowLists(n) ==
    {rows \in [1..n -> [Index : 0..(n - 1), TrainVideoCount : 0..MaxCount]] :
        \A i, j \in 1..n : i # j => rows[i].Index # rows[j].Index}

ColumnSets ==
    {{"Index", "TrainVideoCount", "Name"}, {"TrainVideoCount", "Name"}, {"Index", "Name"}}

\* Vocabulary files, well-formed or not: too few or too many rows, a column missing.
VocabFiles ==
    {[columns |-> c, rows |-> r] :
        c \in ColumnSets, r \in UNION {RowLists(n) : n \in 0..(N_CLASS + 1)}}

\* Vocabulary files as section 6 of the spec describes them: N_CLASS rows, both columns.
WellFormedVocabFiles ==
    {v \in VocabFiles : Len(v.rows) = N_CLASS /\ {"Index", "TrainVideoCount"} \subseteq v.columns}

Examples == [y_true : [1..N_CLASS -> {0, 1}], y_pred : [1..N_CLASS -> PLevels]]

BatchOf(es) == [y_true |-> [i \in DOMAIN es |-> es[i].y_true],
                y_pred |-> [i \in DOMAIN es |-> es[i].y_pred]]

Replicate(e, k) == [i \in 1..k |-> e]

\* The regression fixture of the spec: confident, correct predictions, two examples.
FixtureExample ==
    [y_true |-> [c \in 1..N_CLASS |-> c % 2], y_pred |-> [c \in 1..N_CLASS |-> IF c % 2 = 1 THEN 9 ELSE 1]]

\* Batches of one example replicated, and of an example beside the fixture.
LossBatches ==
    {BatchOf(Replicate(e, k)) : e \in Examples, k \in 1..BATCH_SIZE}
    \cup {BatchOf(<<e, FixtureExample>>) : e \in Examples}
    \cup {BatchOf(<<FixtureExample, e>>) : e \in Examples}

IdleModel ==
    /\ vocab = [columns |-> {}, rows |-> <<>>]
    /\ params = [weighted_loss |-> FALSE, train_steps |-> 0]
    /\ mstate = "new" /\ class_weights = <<>>
    /\ batch = BatchOf(<<>>) /\ steps = 0 /\ loss = None

\* Any vocabulary file, the fixture batch.
InitWeights ==
    /\ vocab \in VocabFiles
    /\ params \in [weighted_loss : BOOLEAN, train_steps : {MaxSteps}]
    /\ mstate = "new" /\ class_weights = <<>>
    /\ batch = BatchOf(Replicate(FixtureExample, 2))
    /\ steps = 0 /\ loss = None

\* A well-formed vocabulary file with its rows in index order, any batch.
InitLoss ==
    /\ vocab \in {v \in WellFormedVocabFiles : v.rows = sort_values(v.rows)}
    /\ params \in [weighted_loss : BOOLEAN, train_steps : {MaxSteps}]
    /\ mstate = "new" /\ class_weights = <<>>
    /\ batch \in LossBatches
    /\ steps = 0 /\ loss = None

\* BaseModel.__init__: self.class_weights = calc_class_weight(VOCAB_FILE, scale=1).
\* An exception of calc_class_weight ends the construction.
ModelInit ==
    /\ mstate = "new"
    /\ LET r == calc_class_weight(vocab, 1)
       IN IF r.raised # "none"
          THEN mstate' = r.raised /\ UNCHANGED class_weights
          ELSE mstate' = "constructed" /\ class_weights' = r.w
    /\ UNCHANGED <<vocab, params, batch, steps, loss>>
    /\ UNCHANGED <<pipeVars, parseVars>>

\* One training step of the estimator: the compiled loss is hamming_loss.
TrainStep ==
    /\ mstate \in {"constructed", "training"}
    /\ steps < params.train_steps
    /\ LET r == hamming_loss([params |-> params, class_weights |-> class_weights],
                             batch.y_true, batch.y_pred)
       IN IF r.raised # "none"
          THEN mstate' = r.raised /\ UNCHANGED <<steps, loss>>
          ELSE mstate' = "training" /\ steps' = steps + 1 /\ loss' = r
    /\ UNCHANGED <<vocab, params, class_weights, batch>>
    /\ UNCHANGED <<pipeVars, parseVars>>

NextModel == ModelInit \/ TrainStep

(***************************************************************************)
(* _parse and serving_input_receiver_fn on serialized examples.            *)
(***************************************************************************)
\* The mean_rgb field: absent, a float list of the right or the wrong length, or a
\* list of another type.
RgbFields ==
    {ABSENT}
    \cup {[kind |-> "float_list", value |-> v] : v \in [1..EMBED_DIM -> 0..MaxRgb] \cup {<<>>}}
    \cup {[kind |-> "int64_list", value |-> [i \in 1..EMBED_DIM |-> 0]]}

\* The labels field: absent, an int64 list (ids up to N_CLASS, which is out of
\* range), or a list of another type.
LabelFields ==
    {ABSENT}
    \cup {[kind |-> "int64_list", value |-> v] : v \in SeqsUpTo(0..N_CLASS, MaxLabels)}
    \cup {[kind |-> "bytes_list", value |-> <<0>>]}

Blobs == [mean_rgb : RgbFields, labels : LabelFields]

IdleParse == examples = <<>> /\ decoded = None /\ receiver = None

\* One serialized example, alone or followed by a stored record.
InitParse ==
    /\ examples \in {<<b>> : b \in Blobs} \cup {<<b, TFRecord(1)>> : b \in Blobs}
    /\ decoded = None /\ receiver = None

\* The record decoder applied to the examples.
Parse ==
    /\ examples # <<>> /\ decoded = None
    /\ decoded' = _parse(examples, FEAT_SPEC_VIDEO)
    /\ UNCHANGED <<examples, receiver>>
    /\ UNCHANGED <<pipeVars, modelVars>>

\* The exported serving graph fed with the examples.
Serve ==
    /\ examples # <<>> /\ receiver = None
    /\ receiver' = serving_input_receiver_fn(examples)
    /\ UNCHANGED <<examples, decoded>>
    /\ UNCHANGED <<pipeVars, modelVars>>

NextParse == Parse \/ Serve

(***************************************************************************)
(* Specifications.                                                         *)
(***************************************************************************)
\* The dataset pipeline.
Init == InitPipe /\ IdleModel /\ IdleParse
Next == NextPipe
Spec == Init /\ [][Next]_vars

\* BaseModel over any vocabulary file.
InitSpecWeights == IdlePipe /\ InitWeights /\ IdleParse
SpecWeights == InitSpecWeights /\ [][NextModel]_vars

\* BaseModel over well-formed vocabulary files and any batch.
InitSpecLoss == IdlePipe /\ InitLoss /\ IdleParse
SpecLoss == InitSpecLoss /\ [][NextModel]_vars

\* The decoder and the serving adapter.
InitSpecParse == IdlePipe /\ IdleModel /\ InitParse
SpecParse == InitSpecParse /\ [][NextParse]_vars

(***************************************************************************)
(* Properties of the dataset pipeline (specification Spec).                *)
(***************************************************************************)
\* Records of the source the dataset was built on.
N == NumRecords(glob(INFILES, storage))

Ceil(a, b) == (a + b - 1) \div b

\* Number of examples of a decoded batch.
BatchSize(b) == Len(b.labels)

\* The record a decoded example came from, read off its embedding.
RecordOf(b, j) == b.features["mean_rgb"][j][1]

\* The positions of the yielded examples: batch i, place j.
Places == {<<i, j>> \in (DOMAIN out) \X (1..BATCH_SIZE) : j <= Len(out[i].src)}

\* C1 as stated: in TRAIN mode over a non-empty source every yielded batch has
\* exactly BATCH_SIZE records and holds records of one pass only (the remainder of
\* a pass is dropped, never carried into the next pass).
C1_NoBatchSpansTwoPasses ==
    (mode = "TRAIN" /\ N > 0) =>
        \A i \in DOMAIN out :
            /\ BatchSize(out[i]) = BATCH_SIZE
            /\ \A j, k \in DOMAIN out[i].src : out[i].src[j].pass = out[i].src[k].pass

\* C1 amended: in TRAIN mode over a non-empty source every yielded batch has exactly
\* BATCH_SIZE decoded examples, and no record is dropped: the k-th yielded example
\* (place j of batch i is the ((i-1)*BATCH_SIZE+j)-th) belongs to pass (k-1) div N,
\* the examples of one pass are distinct records (no two yielded examples agree in
\* record and pass), and a
\* batch that reaches the end of a pass is completed with records of the next pass.
\* Over a source of 2*BATCH_SIZE+1 records the third batch holds the last record of
\* the first pass followed by records of the second.
C1_TrainBatchesCarryRemainder ==
    (mode = "TRAIN" /\ N > 0) =>
        /\ \A i \in DOMAIN out :
              /\ BatchSize(out[i]) = BATCH_SIZE
              /\ Len(out[i].src) = BATCH_SIZE
              /\ \A j \in DOMAIN out[i].src : RecordOf(out[i], j) = out[i].src[j].rec
        /\ \A p \in Places :
              /\ out[p[1]].src[p[2]].pass = ((p[1] - 1) * BATCH_SIZE + p[2] - 1) \div N
              /\ out[p[1]].src[p[2]].rec \in 1..N
        /\ Cardinality({out[p[1]].src[p[2]] : p \in Places}) = Cardinality(Places)
        /\ (N = 2 * BATCH_SIZE + 1 /\ Len(out) >= 3) =>
              /\ out[3].src[1].pass = 0
              /\ \A j \in 2..BATCH_SIZE : out[3].src[j].pass = 1

\* A source of 2*BATCH_SIZE+1 records whose third batch has been taken.
C1_Witness ==
    /\ mode = "TRAIN" /\ N = 2 * BATCH_SIZE + 1 /\ Len(out) >= 3
    /\ out[3].src[1].pass # out[3].src[BATCH_SIZE].pass

\* The EVAL stream has ended and the consumer has taken every batch.
EvalFinished == pc = "built" /\ mode = "EVAL" /\ eos /\ buf = <<>>

\* C2: in EVAL mode the batches yielded hold the records of the source in order,
\* each once; no batch is empty or larger than BATCH_SIZE and only the last batch of
\* the stream (the files are read to their end, nothing is buffered behind it) is
\* smaller; the stream is finite, and once it has ended exactly
\* ceil(N / BATCH_SIZE) batches were yielded whose sizes sum to N.
C2_EvalCompleteness ==
    mode = "EVAL" =>
        /\ Len(out) <= Ceil(N, BATCH_SIZE)
        /\ \A i \in DOMAIN out :
              /\ BatchSize(out[i]) \in 1..BATCH_SIZE
              /\ BatchSize(out[i]) < BATCH_SIZE =>
                    (i = Len(out) /\ buf = <<>> /\ iter.input_ended)
              /\ \A j \in 1..BatchSize(out[i]) :
                    RecordOf(out[i], j) = (i - 1) * BATCH_SIZE + j
        /\ EvalFinished =>
              /\ Len(out) = Ceil(N, BATCH_SIZE)
              /\ SeqSum([i \in DOMAIN out |-> BatchSize(out[i])]) = N
              /\ \A r \in 1..N :
                    Cardinality({p \in Places : RecordOf(out[p[1]], p[2]) = r}) = 1

\* An EVAL stream over a source that is no multiple of BATCH_SIZE has ended with a
\* partial last batch.
C2_Witness ==
    /\ EvalFinished /\ N > BATCH_SIZE /\ N % BATCH_SIZE # 0
    /\ BatchSize(out[Len(out)]) < BATCH_SIZE

\* C7 as stated: at every moment at most one decoded batch is buffered ahead of
\* the consumer.
C7_AtMostOneBatchBuffered == Len(buf) <= 1

\* C8 as stated: once input_fn has been called on a glob that matches no file, it
\* has failed with SourceNotFoundError (it has returned no dataset).
C8_UnmatchedGlobFails ==
    (pc # "start" /\ glob(INFILES, storage) = <<>>) => pc = "SourceNotFoundError"

(***************************************************************************)
(* Properties of the decoder and the serving adapter (SpecParse).          *)
(***************************************************************************)
\* C3 as stated: every entry of a decoded label vector is 1 when the class occurs in
\* the example's label list and 0 otherwise, however often the class is repeated.
C3_LabelsAreZeroOne ==
    (decoded # None /\ decoded.raised = "none") =>
        \A i \in DOMAIN examples : \A c \in 1..N_CLASS :
            decoded.labels[i][c] =
                IF (c - 1) \in Range(examples[i].labels.value) THEN 1 ELSE 0

\* The examples with the labels field removed from each.
StripLabels(es) == [i \in DOMAIN es |-> [es[i] EXCEPT !.labels = ABSENT]]

\* Every example carries a valid mean_rgb field, and a labels field, where present,
\* is the int64 list of the schema.
ServingInput(es) ==
    \A i \in DOMAIN es :
        /\ es[i].mean_rgb.kind = "float_list" /\ Len(es[i].mean_rgb.value) = EMBED_DIM
        /\ es[i].labels.kind \in {"absent", "int64_list"}

\* C5: for examples that carry a valid mean_rgb field, serving_input_receiver_fn
\* parses successfully whether or not the labels field is present, the features it
\* returns hold no labels entry, and they are the features returned for the same
\* examples with the labels stripped.
C5_ServingIgnoresLabels ==
    (receiver # None /\ ServingInput(examples)) =>
        /\ receiver.raised = "none"
        /\ "labels" \notin DOMAIN receiver.features
        /\ DOMAIN receiver.features = {"mean_rgb"}
        /\ \A i \in DOMAIN examples :
              receiver.features["mean_rgb"][i] = examples[i].mean_rgb.value
        /\ serving_input_receiver_fn(StripLabels(examples)).raised = "none"
        /\ receiver.features = serving_input_receiver_fn(StripLabels(examples)).features

\* A served batch of two valid examples, the first without labels, the second with.
C5_Witness ==
    /\ receiver # None /\ ServingInput(examples) /\ Len(examples) = 2
    /\ examples[1].labels = ABSENT /\ examples[2].labels.value # <<>>
    /\ receiver.raised = "none"

(***************************************************************************)
(* Properties of the class weights (SpecWeights).                          *)
(***************************************************************************)
Constructed == mstate \in {"constructed", "training"}

Counts == [i \in DOMAIN vocab.rows |-> vocab.rows[i].TrainVideoCount]

HasBothColumns == {"Index", "TrainVideoCount"} \subseteq vocab.columns

\* C4 as stated: the weight vector of a vocabulary (of N_CLASS rows) with a zero
\* count holds only finite numbers.
C4_WeightsFinite ==
    (Constructed /\ Len(vocab.rows) = N_CLASS /\ \E i \in DOMAIN Counts : Counts[i] = 0) =>
        \A i \in DOMAIN class_weights : IsFinite(class_weights[i])

\* C9 as stated: for a vocabulary that lacks a required column or whose row count is
\* not N_CLASS the construction of BaseModel fails with a schema error and no weight
\* vector (the KeyError pandas raises counts as one), and a constructed model's
\* weight vector has N_CLASS entries.
C9_BadVocabularyFails ==
    /\ (mstate # "new" /\ (~HasBothColumns \/ Len(vocab.rows) # N_CLASS)) =>
          (mstate \in {"SchemaError", "KeyError"} /\ class_weights = <<>> /\ steps = 0)
    /\ Constructed => Len(class_weights) = N_CLASS

\* sum over the rows of count * weight, in floating point.
WeightedCountSum ==
    FSum([i \in DOMAIN vocab.rows |->
            FMul(Fin(vocab.rows[i].TrainVideoCount, 1), class_weights[vocab.rows[i].Index + 1])])

LossWeight(c) == IF params.weighted_loss THEN class_weights[c] ELSE Fin(1, 1)

\* The per-element losses of the whole batch, each scaled by its class's weight, as
\* one list.
RECURSIVE ScaledElements(_)
ScaledElements(e) ==
    IF e = 0 THEN <<>>
    ELSE ScaledElements(e - 1) \o
         [c \in 1..N_CLASS |->
             FMul(binary_crossentropy_elem(batch.y_true[e][c], batch.y_pred[e][c]),
                  LossWeight(c))]

\* C6: the loss of a training step is the sum, over all examples and classes, of the
\* per-element loss scaled by the class's weight (unscaled without weighted_loss),
\* divided by the number of examples; so a batch that replicates one example has
\* the loss of the batch holding that example once.
C6_SumThenMean ==
    (mstate = "training" /\ loss # None) =>
        /\ loss.value = FDivInt(FSum(ScaledElements(Len(batch.y_true))), Len(batch.y_true))
        /\ (\A i \in DOMAIN batch.y_true :
                batch.y_true[i] = batch.y_true[1] /\ batch.y_pred[i] = batch.y_pred[1]) =>
              loss.value =
                  hamming_loss([params |-> params, class_weights |-> class_weights],
                               <<batch.y_true[1]>>, <<batch.y_pred[1]>>).value

\* A weighted step over a batch replicating one example, with unequal finite weights.
C6_Witness ==
    /\ mstate = "training" /\ loss # None /\ params.weighted_loss
    /\ Len(batch.y_true) >= 2
    /\ \A i \in DOMAIN batch.y_true :
          batch.y_true[i] = batch.y_true[1] /\ batch.y_pred[i] = batch.y_pred[1]
    /\ \E c, d \in DOMAIN class_weights : class_weights[c] # class_weights[d]
    /\ \A c \in DOMAIN class_weights : IsFinite(class_weights[c])

==========================================================================
